---------------------------- MODULE Spec2Model ----------------------------
(***************************************************************************)
(* A model of the listing scraper of real_estate_analysis/web_scraper.py:  *)
(* the run loop HouseDataExtractor.scrape_and_save_property_details, the   *)
(* field extractor HouseDataExtractor.extract_house_details, and the URL   *)
(* discovery URLFetcher.fetch_page_urls, HouseURLExtractor.extract_house_urls.*)
(*                                                                         *)
(* Text is a sequence of one-character strings, so that the str methods    *)
(* the code uses (split, strip, replace, in) and the coercions int() and   *)
(* float() are computed rather than assumed.  A Python value is a tagged   *)
(* tuple: <<"nan">> (numpy.nan, the missing sentinel), <<"str", text>>,    *)
(* <<"int", n>>, <<"float", mantissa, decimals>> and <<"list", dict>> (a   *)
(* one-element list holding a dict).  A dict is a sequence of <<key,       *)
(* value>> pairs in insertion order, as Python's dict is.                  *)
(***************************************************************************)
EXTENDS Integers, Sequences, FiniteSets, TLC

VARIABLES
    url_list,       \* the input: listing URLs, URL k is the k-th of the list
    batch_size,     \* the input: checkpoint interval
    i,              \* enumerate() index of the listing in hand (0-based)
    pc,             \* position of the run in its code
    house_doc,      \* the document fetched for the listing in hand
    house_dict,     \* the record extracted from house_doc
    details_df,     \* the accumulated table
    origin,         \* history: for every row of details_df, the index of the
                    \* listing it was extracted from
    failed,         \* history: the indices of the listings whose fetch or
                    \* extraction raised
    file,           \* content of the destination file
    effects,        \* outside-visible events so far: fetches, writes, sleeps
    mainurldoc,     \* URL discovery: the page the site serves for the seed URL
    docs,           \* URL discovery, history: the result pages fetched so
                    \* far by extract_house_urls, in the order of the fetches
    house_urls,     \* URL discovery: the listing URLs collected so far
    dataframe,      \* cleaning: the table given to drop_high_missing_columns
    threshold_ratio,\* cleaning: the ratio given, as <<numerator, denominator>>
    cleaned         \* cleaning: the table drop_high_missing_columns returns

vars == <<url_list, batch_size, i, pc, house_doc, house_dict, details_df,
          origin, failed, file, effects, mainurldoc, docs, house_urls,
          dataframe, threshold_ratio, cleaned>>

---------------------------------------------------------------------------
\* Bounds of the model.

\* longest input list of listing URLs
MaxUrls == 4
\* largest batch_size
MaxBatch == 3
\* number of widgets in which a document given to the extractor alone
\* differs from the fully rendered listing page
MaxAltered == 2
\* largest number of anchors of a seed page
MaxAnchors == 2
\* largest number of rows of a table given to the cleaning
MaxRows == 3

---------------------------------------------------------------------------
\* Python str, as sequences of characters.

Digits == {"0", "1", "2", "3", "4", "5", "6", "7", "8", "9"}

DigitVal(c) ==
    CASE c = "0" -> 0 [] c = "1" -> 1 [] c = "2" -> 2 [] c = "3" -> 3
      [] c = "4" -> 4 [] c = "5" -> 5 [] c = "6" -> 6 [] c = "7" -> 7
      [] c = "8" -> 8 [] c = "9" -> 9

DigitChar(d) ==
    CASE d = 0 -> "0" [] d = 1 -> "1" [] d = 2 -> "2" [] d = 3 -> "3"
      [] d = 4 -> "4" [] d = 5 -> "5" [] d = 6 -> "6" [] d = 7 -> "7"
      [] d = 8 -> "8" [] d = 9 -> "9"

\* str.isspace() on the characters the documents use
Whitespace == {" ", "\n", "\t"}

\* s[a:b] with 1-based inclusive positions; empty when a > b
Slice(s, a, b) == [k \in 1..(b - a + 1) |-> s[a + k - 1]]

\* the positions of s at which needle starts
Occurrences(s, needle) ==
    {p \in 1..(Len(s) - Len(needle) + 1) :
        \A k \in 1..Len(needle) : s[p + k - 1] = needle[k]}

\* needle in s
Contains(s, needle) == Len(needle) = 0 \/ Occurrences(s, needle) # {}

\* s.startswith(prefix)
StartsWith(s, prefix) ==
    /\ Len(prefix) <= Len(s)
    /\ \A k \in 1..Len(prefix) : s[k] = prefix[k]

RECURSIVE SplitFrom(_, _, _)
\* the pieces of s from position p on, cut at every character of seps
SplitFrom(s, seps, p) ==
    LET cuts == {q \in p..Len(s) : s[q] \in seps}
    IN  IF cuts = {}
        THEN << Slice(s, p, Len(s)) >>
        ELSE LET q == CHOOSE c \in cuts : \A d \in cuts : c <= d
             IN  << Slice(s, p, q - 1) >> \o SplitFrom(s, seps, q + 1)

\* s.split(sep) for a one-character separator: empty pieces are kept
SplitSep(s, sep) == SplitFrom(s, {sep}, 1)

\* s.split(): cut at runs of whitespace, no empty pieces
SplitWs(s) == SelectSeq(SplitFrom(s, Whitespace, 1), LAMBDA t : Len(t) > 0)

\* s.strip(chars): drop leading and trailing characters that are in chars
StripChars(s, chars) ==
    LET keep == {p \in 1..Len(s) : s[p] \notin chars}
    IN  IF keep = {}
        THEN << >>
        ELSE Slice(s, CHOOSE a \in keep : \A b \in keep : a <= b,
                      CHOOSE a \in keep : \A b \in keep : a >= b)

\* s.replace(c, ""): drop every occurrence of the character c
RemoveChar(s, c) == SelectSeq(s, LAMBDA x : x # c)

RECURSIVE Concat(_)
\* "".join(parts)
Concat(parts) ==
    IF Len(parts) = 0 THEN << >> ELSE Head(parts) \o Concat(Tail(parts))

RECURSIVE DigitsValue(_)
\* the number a non-empty run of decimal digits denotes
DigitsValue(s) ==
    IF Len(s) = 0 THEN 0
    ELSE 10 * DigitsValue(Slice(s, 1, Len(s) - 1)) + DigitVal(s[Len(s)])

RECURSIVE NatText(_)
\* str(n) for n >= 0
NatText(n) ==
    IF n < 10 THEN << DigitChar(n) >>
    ELSE NatText(n \div 10) \o << DigitChar(n % 10) >>

AllDigits(s) == Len(s) > 0 /\ \A k \in 1..Len(s) : s[k] \in Digits

RECURSIVE Pow10(_)
Pow10(n) == IF n = 0 THEN 1 ELSE 10 * Pow10(n - 1)

---------------------------------------------------------------------------
\* Python values.

NaN == <<"nan">>
Str(s) == <<"str", s>>
IntV(n) == <<"int", n>>
ListOf(d) == <<"list", d>>

RECURSIVE FloatV(_, _)
\* the float mantissa / 10^decimals, with trailing zero decimals dropped so
\* that equal numbers are equal values
FloatV(mantissa, decimals) ==
    IF decimals > 0 /\ mantissa % 10 = 0
    THEN FloatV(mantissa \div 10, decimals - 1)
    ELSE <<"float", mantissa, decimals>>

\* raised: the marker of an exception leaving the evaluation of an expression
Raised == <<"raise">>

\* a sign and the text after it
Unsigned(s) == IF Len(s) > 0 /\ s[1] \in {"+", "-"} THEN Tail(s) ELSE s
SignOf(s) == IF Len(s) > 0 /\ s[1] = "-" THEN -1 ELSE 1

\* int(s): surrounding whitespace is dropped, an optional sign, then decimal
\* digits; anything else raises ValueError
PyInt(s) ==
    LET t == StripChars(s, Whitespace)
        u == Unsigned(t)
    IN  IF AllDigits(u) THEN IntV(SignOf(t) * DigitsValue(u)) ELSE Raised

\* float(s): as int(s), with an optional decimal point among the digits
PyFloat(s) ==
    LET t == StripChars(s, Whitespace)
        u == Unsigned(t)
        parts == SplitSep(u, ".")
    IN  IF Len(parts) = 1 /\ AllDigits(u)
        THEN FloatV(SignOf(t) * DigitsValue(u), 0)
        ELSE IF /\ Len(parts) = 2
                /\ Len(parts[1]) + Len(parts[2]) > 0
                /\ \A k \in 1..2 : Len(parts[k]) = 0 \/ AllDigits(parts[k])
        THEN FloatV(SignOf(t) * DigitsValue(parts[1] \o parts[2]),
                    Len(parts[2]))
        ELSE Raised

---------------------------------------------------------------------------
\* Python dict: a sequence of <<key, value>> pairs in insertion order.

DictKeys(d) == {d[j][1] : j \in 1..Len(d)}

DictHas(d, k) == \E j \in 1..Len(d) : d[j][1] = k

\* d[k], for a key of d
DictGet(d, k) == d[CHOOSE j \in 1..Len(d) : d[j][1] = k][2]

\* d[k] = v: an existing key keeps its place and takes the new value, a new
\* key goes to the end
DictSet(d, k, v) ==
    IF DictHas(d, k)
    THEN [j \in 1..Len(d) |-> IF d[j][1] = k THEN <<k, v>> ELSE d[j]]
    ELSE Append(d, <<k, v>>)

RECURSIVE DictUpdate(_, _)
\* d.update(e), e a dict or a list of pairs
DictUpdate(d, e) ==
    IF Len(e) = 0 THEN d
    ELSE DictUpdate(DictSet(d, e[1][1], e[1][2]), Tail(e))

\* zip(x, y): pairs by position, as many as the shorter sequence has
Zip(x, y) ==
    [k \in 1..(IF Len(x) <= Len(y) THEN Len(x) ELSE Len(y)) |-> <<x[k], y[k]>>]

---------------------------------------------------------------------------
\* The named fields of a record, in the order of the dict literal l.

k_List_price == <<"L", "i", "s", "t", "_", "p", "r", "i", "c", "e">>
k_Address == <<"A", "d", "d", "r", "e", "s", "s">>
k_Beds == <<"B", "e", "d", "s">>
k_Baths == <<"B", "a", "t", "h", "s">>
k_Living_sqft == <<"L", "i", "v", "i", "n", "g", "_", "s", "q", "f", "t">>
k_Drought_Score ==
    <<"D", "r", "o", "u", "g", "h", "t", "_", "S", "c", "o", "r", "e">>
k_Walk_score == <<"W", "a", "l", "k", "_", "s", "c", "o", "r", "e">>
k_Neighbourhood_Homes ==
    <<"N", "e", "i", "g", "h", "b", "o", "u", "r", "h", "o", "o", "d", "_",
      "H", "o", "m", "e", "s">>
k_Transit_score ==
    <<"T", "r", "a", "n", "s", "i", "t", "_", "s", "c", "o", "r", "e">>
k_Groceries_stores ==
    <<"G", "r", "o", "c", "e", "r", "i", "e", "s", "_", "s", "t", "o", "r",
      "e", "s">>
k_Services == <<"S", "e", "r", "v", "i", "c", "e", "s">>
k_Emergency == <<"E", "m", "e", "r", "g", "e", "n", "c", "y">>
k_Shopping == <<"S", "h", "o", "p", "p", "i", "n", "g">>
k_Food_and_Drink ==
    <<"F", "o", "o", "d", "_", "a", "n", "d", "_", "D", "r", "i", "n", "k">>
k_Schools == <<"S", "c", "h", "o", "o", "l", "s">>
k_Competitive_Score ==
    <<"C", "o", "m", "p", "e", "t", "i", "t", "i", "v", "e", "_", "S", "c",
      "o", "r", "e">>
k_page_view_count ==
    <<"p", "a", "g", "e", "_", "v", "i", "e", "w", "_", "c", "o", "u", "n",
      "t">>
k_page_fav_count_30 ==
    <<"p", "a", "g", "e", "_", "f", "a", "v", "_", "c", "o", "u", "n", "t",
      "_", "3", "0">>
k_page_fav_all_time_count ==
    <<"p", "a", "g", "e", "_", "f", "a", "v", "_", "a", "l", "l", "_", "t",
      "i", "m", "e", "_", "c", "o", "u", "n", "t">>
k_has_supercenter ==
    <<"h", "a", "s", "_", "s", "u", "p", "e", "r", "c", "e", "n", "t", "e",
      "r">>
k_has_major_indian_grocery ==
    <<"h", "a", "s", "_", "m", "a", "j", "o", "r", "_", "i", "n", "d", "i",
      "a", "n", "_", "g", "r", "o", "c", "e", "r", "y">>
k_has_major_entertainment ==
    <<"h", "a", "s", "_", "m", "a", "j", "o", "r", "_", "e", "n", "t", "e",
      "r", "t", "a", "i", "n", "m", "e", "n", "t">>
k_has_indian_restaurant ==
    <<"h", "a", "s", "_", "i", "n", "d", "i", "a", "n", "_", "r", "e", "s",
      "t", "a", "u", "r", "a", "n", "t">>
k_has_chinese_restaurant ==
    <<"h", "a", "s", "_", "c", "h", "i", "n", "e", "s", "e", "_", "r", "e",
      "s", "t", "a", "u", "r", "a", "n", "t">>
k_has_mexican_restaurant ==
    <<"h", "a", "s", "_", "m", "e", "x", "i", "c", "a", "n", "_", "r", "e",
      "s", "t", "a", "u", "r", "a", "n", "t">>
k_has_boba == <<"h", "a", "s", "_", "b", "o", "b", "a">>
k_has_starbucks ==
    <<"h", "a", "s", "_", "s", "t", "a", "r", "b", "u", "c", "k", "s">>
k_has_healthcare_support ==
    <<"h", "a", "s", "_", "h", "e", "a", "l", "t", "h", "c", "a", "r", "e",
      "_", "s", "u", "p", "p", "o", "r", "t">>
k_has_mall == <<"h", "a", "s", "_", "m", "a", "l", "l">>

NamedKeys ==
    << k_List_price, k_Address, k_Beds, k_Baths, k_Living_sqft,
       k_Drought_Score, k_Walk_score, k_Neighbourhood_Homes, k_Transit_score,
       k_Groceries_stores, k_Services, k_Emergency, k_Shopping,
       k_Food_and_Drink, k_Schools, k_Competitive_Score, k_page_view_count,
       k_page_fav_count_30, k_page_fav_all_time_count, k_has_supercenter,
       k_has_major_indian_grocery, k_has_major_entertainment,
       k_has_indian_restaurant, k_has_chinese_restaurant,
       k_has_mexican_restaurant, k_has_boba, k_has_starbucks,
       k_has_healthcare_support, k_has_mall >>

\* The keyword lists of the amenity flags.

SuperCenters ==
    << <<"C", "o", "s", "t", "c", "o">>,
       <<"T", "a", "r", "g", "e", "t">>,
       <<"W", "a", "l", "m", "a", "r", "t">>,
       <<"S", "a", "f", "e", "w", "a", "y">>,
       <<"L", "u", "c", "k", "y">>,
       <<"F", "o", "o", "d", "M", "a", "x", "x">>,
       <<"T", "r", "a", "d", "e", "r", " ", "J", "o", "e">>,
       <<"W", "a", "l", "g", "r", "e", "e", "n", "s">> >>

Major_Indian_Grocery ==
    << <<"N", "e", "w", " ", "I", "n", "d", "i", "a">>,
       <<"A", "p", "n", "a", " ", "B", "a", "z", "a", "a", "r">>,
       <<"I", "n", "d", "i", "a", " ", "C", "a", "s", "h",
         " ", "A", "n", "d", " ", "C", "a", "r", "r", "y">>,
       <<"T", "r", "i", "n", "e", "t", "r", "a">>,
       <<"N", "a", "m", "a", "s", "t", "e">>,
       <<"S", "a", "u", "d", "a", "g", "a", "r">>,
       <<"B", "h", "a", "r", "a", "t">>,
       <<"N", "i", "l", "g", "i", "r", "i", "s">> >>

Major_Entertainment ==
    << <<"A", "M", "C">>,
       <<"C", "i", "n", "e", "m", "a", "r", "k">>,
       <<"T", "h", "e", "a", "t", "e", "r">> >>

Boba ==
    << <<"B", "u", "b", "b", "l", "e", " ", "T", "e", "a">>,
       <<"B", "o", "b", "a">> >>

Healthcare ==
    << <<"H", "o", "s", "p", "i", "t", "a", "l">>,
       <<"C", "l", "i", "n", "i", "c">>,
       <<"K", "a", "i", "s", "e", "r", " ", "P",
         "e", "r", "m", "a", "n", "a", "n", "t", "e">>,
       <<"U", "n", "i", "t", "e", "d", " ", "H", "e", "a", "l", "t", "h">>,
       <<"H", "e", "a", "l", "t", "h">> >>

kw_Indian_Restaurant ==
    <<"I", "n", "d", "i", "a", "n", " ", "R", "e", "s", "t", "a", "u", "r",
      "a", "n", "t">>
kw_Chinese_Restaurant ==
    <<"C", "h", "i", "n", "e", "s", "e", " ", "R", "e", "s", "t", "a", "u",
      "r", "a", "n", "t">>
kw_Mexican_Restaurant ==
    <<"M", "e", "x", "i", "c", "a", "n", " ", "R", "e", "s", "t", "a", "u",
      "r", "a", "n", "t">>
kw_Starbucks == <<"S", "t", "a", "r", "b", "u", "c", "k", "s">>
kw_Mall == <<"M", "a", "l", "l">>

---------------------------------------------------------------------------
\* Documents.  A document is what the structural queries of the extractor
\* find in it: for every query, the text of the matching nodes in document
\* order (an absent widget is the empty sequence).  A keyDetail node is the
\* sequence of the texts of its span children; a PointOfInterestWidget node
\* is the sequence of its children, each <<"Tag__text", text>> or
\* <<"text", text>>.

Widgets ==
    {"keyDetail", "statsValue", "homeaddress", "beds", "baths", "sqFt",
     "riskValue", "marketCard", "walkScore", "transitScore",
     "PointOfInterestWidget", "competeScore", "activityCount", "schoolName",
     "ratingNum"}

\* Texts of the documents of the model.

t_Style == <<"S", "t", "y", "l", "e">>
t_Lot == <<"L", "o", "t">>
t_Ranch == <<"R", "a", "n", "c", "h">>
t_Beds == <<"B", "e", "d", "s">>
t_many == <<"m", "a", "n", "y">>
t_price ==
    <<"$", "1", ",", "2", "3", "4", ",", "5", "6", "7", " ", "E", "s", "t", ".">>
t_price_bad == <<"C", "a", "l", "l", " ", "a", "g", "e", "n", "t">>
t_address == <<"1", " ", "A", " ", "S", "t">>
t_beds == <<"3", "B", "e", "d", "s">>
t_beds_bad == <<"-", "B", "e", "d", "s">>
t_baths == <<"2", ".", "5", "B", "a", "t", "h", "s">>
t_baths_bad == <<"B", "a", "t", "h", "s">>
t_sqft == <<"1", ",", "5", "0", "0", "S", "q", " ", "F", "t">>
t_sqft_bad == <<"-", "S", "q", " ", "F", "t">>
t_risk == <<"4">>
t_risk_bad == <<"n", "/", "a">>
t_market ==
    <<"H", "o", "m", "e", "s", " ", "#", "1", "2", "S", "a", "l", "e", "-",
      "t", "o", "-", "L", "i", "s", "t", " ", "9", "8", "%", " ", "a", "v",
      "g">>
t_market_bad == <<"9", "8", "%", " ", "a", "v", "g">>
t_walk == <<"7", "2", " ", "/", "1", "0", "0">>
t_walk_bad == <<"W", "a", "l", "k", "a", "b", "l", "e">>
t_transit == <<"5", "5">>
t_transit_bad == <<"f", "a", "i", "r">>
t_comp == <<"8", "8">>
t_All == <<"A", "l", "l">>
t_Parks == <<"P", "a", "r", "k", "s">>
t_nearby == <<"C", "o", "s", "t", "c", "o", " ", "M", "a", "l", "l">>
t_nearby_claim ==
    <<"C", "o", "s", "t", "c", "o", " ", "S", "u", "p", "e", "r", "c", "e",
      "n", "t", "e", "r", ",", " ", "S", "t", "a", "r", "b", "u", "c", "k",
      "s", ",", " ", "A", "M", "C", " ", "T", "h", "e", "a", "t", "e", "r">>
t_nearby_other ==
    <<"B", "h", "a", "r", "a", "t", " ", "B", "a", "z", "a", "r", ",", " ",
      "B", "o", "b", "a", ",", " ", "C", "h", "i", "n", "e", "s", "e", " ",
      "R", "e", "s", "t", "a", "u", "r", "a", "n", "t", ",", " ", "M", "e",
      "x", "i", "c", "a", "n", " ", "R", "e", "s", "t", "a", "u", "r", "a",
      "n", "t", ",", " ", "I", "n", "d", "i", "a", "n", " ", "R", "e", "s",
      "t", "a", "u", "r", "a", "n", "t", ",", " ", "C", "l", "i", "n", "i",
      "c">>
t_Elm == <<"E", "l", "m">>
t_Oak == <<"O", "a", "k">>
t_Ellipsis == <<"E", "l", "l", "i", "p", "s", "i", "s">>

\* a fully rendered point-of-interest widget: seven count tags and the names
\* of places nearby
PoiWidget ==
    << <<"Tag__text", t_All>>, <<"Tag__text", <<"4">>>>,
       <<"Tag__text", <<"9">>>>, <<"Tag__text", t_Parks>>,
       <<"Tag__text", <<"3">>>>, <<"Tag__text", <<"2">>>>,
       <<"Tag__text", <<"6">>>>, <<"text", t_nearby>> >>

\* a listing page on which every widget is rendered
FullDoc ==
    [keyDetail |-> << <<t_Style, t_Ranch>> >>,
     statsValue |-> << t_price >>,
     homeaddress |-> << t_address >>,
     beds |-> << t_beds >>,
     baths |-> << t_baths >>,
     sqFt |-> << t_sqft >>,
     riskValue |-> << t_risk >>,
     marketCard |-> << t_market >>,
     walkScore |-> << t_walk >>,
     transitScore |-> << t_transit >>,
     PointOfInterestWidget |-> << PoiWidget >>,
     competeScore |-> << t_comp >>,
     activityCount |-> << <<"7">>, <<"8">>, <<"9">> >>,
     schoolName |-> << t_Elm, t_Oak >>,
     ratingNum |-> << <<"8">>, <<"6">> >>]

\* What else a page may hold in place of a widget, listed: nothing (the
\* widget is not rendered), or other content, some of which its extraction
\* rule cannot parse.
Alternatives(w) ==
    CASE w = "keyDetail" ->
            << << >>,
              << <<t_Style>> >>,
              << <<t_Lot, t_many>> >>,
              << <<t_Style \o <<"\n">> \o t_Beds, t_many \o <<" ">> \o t_Ranch>> >>,
              << <<t_Lot, t_many \o <<" ">> \o t_Ranch>> >> >>
      [] w = "statsValue" -> << << >>, << t_price_bad >> >>
      [] w = "homeaddress" -> << << >> >>
      [] w = "beds" -> << << >>, << t_beds_bad >> >>
      [] w = "baths" -> << << >>, << t_baths_bad >> >>
      [] w = "sqFt" -> << << >>, << t_sqft_bad >> >>
      [] w = "riskValue" -> << << >>, << t_risk_bad >> >>
      [] w = "marketCard" -> << << >>, << t_market_bad >> >>
      [] w = "walkScore" -> << << >>, << t_walk_bad >> >>
      [] w = "transitScore" -> << << >>, << t_transit_bad >> >>
      [] w = "PointOfInterestWidget" ->
            << << >>,
              << SubSeq(PoiWidget, 1, 3) >>,
              << [PoiWidget EXCEPT ![2] = <<"Tag__text", t_Parks>>] >>,
              << [PoiWidget EXCEPT ![8] = <<"text", t_nearby_claim>>] >>,
              << [PoiWidget EXCEPT ![8] = <<"text", t_nearby_other>>] >> >>
      [] w = "competeScore" -> << << >> >>
      [] w = "activityCount" -> << << >>, << <<"7">> >> >>
      [] w = "schoolName" -> << << >>, << t_Elm >>, << t_Elm, t_Elm >> >>
      [] w = "ratingNum" -> << << >>, << <<"8">> >> >>

\* FullDoc with every widget w of ws replaced by its alternative alt[w]
Altered(ws, alt) ==
    [w \in Widgets |-> IF w \in ws THEN Alternatives(w)[alt[w]] ELSE FullDoc[w]]

\* the choices of an alternative for each widget of ws
AlternativeChoices(ws) ==
    {alt \in [ws -> UNION {1..Len(Alternatives(w)) : w \in ws}] :
        \A w \in ws : alt[w] <= Len(Alternatives(w))}

---------------------------------------------------------------------------
\* extract_house_details: one operator per extraction rule, named after the
\* local variable the rule assigns.

\* try: x = v / except: x = np.nan
OrNaN(v) == IF v = Raised THEN NaN ELSE v

\* doc.find(...).text: the text of the first matching node; AttributeError
\* (None has no .text) when there is none
FindText(nodes) == IF Len(nodes) = 0 THEN Raised ELSE Str(nodes[1])

\* the generic key-detail table: for every keyDetail node the lines of its
\* first span are paired with the whitespace-separated words of its second.
\* A node with fewer than two spans raises IndexError, outside any try.
RECURSIVE key_details(_, _)
key_details(nodes, table_dict) ==
    IF Len(nodes) = 0 THEN [ok |-> TRUE, val |-> table_dict]
    ELSE IF Len(nodes[1]) < 2 THEN [ok |-> FALSE, val |-> << >>]
    ELSE LET x == SplitSep(nodes[1][1], "\n")
             y == SplitWs(nodes[1][2])
             z == Zip(x, [k \in 1..Len(y) |-> Str(y[k])])
         IN  key_details(Tail(nodes), DictUpdate(table_dict, z))

\* price with the bug of taking the text before the currency symbol
price_before_symbol(doc) ==
    OrNaN(IF Len(doc.statsValue) = 0 THEN Raised
          ELSE LET parts == SplitSep(doc.statsValue[1], "$")
               IN  IF Len(parts) < 2 THEN Raised ELSE Str(parts[1]))

price(doc) ==
    OrNaN(IF Len(doc.statsValue) = 0 THEN Raised
          ELSE LET parts == SplitSep(doc.statsValue[1], "$")
               IN  IF Len(parts) < 2 THEN Raised ELSE Str(parts[2]))

Address(doc) == OrNaN(FindText(doc.homeaddress))

beds(doc) ==
    OrNaN(IF Len(doc.beds) = 0 THEN Raised
          ELSE PyInt(SplitSep(doc.beds[1], "B")[1]))

bath(doc) ==
    OrNaN(IF Len(doc.baths) = 0 THEN Raised
          ELSE PyFloat(SplitSep(doc.baths[1], "B")[1]))

living_sqft(doc) ==
    OrNaN(IF Len(doc.sqFt) = 0 THEN Raised
          ELSE PyFloat(RemoveChar(SplitSep(doc.sqFt[1], "S")[1], ",")))

d_score(doc) ==
    OrNaN(IF Len(doc.riskValue) = 0 THEN Raised ELSE PyInt(doc.riskValue[1]))

nbd_homes(doc) ==
    OrNaN(IF Len(doc.marketCard) = 0 THEN Raised
          ELSE LET words == SplitWs(doc.marketCard[1])
               IN  IF Len(words) < 3 THEN Raised
                   ELSE PyInt(StripChars(
                            StripChars(words[Len(words) - 2],
                                {"S", "a", "l", "e", "-", "t", "o", "L", "i", "s"}),
                            {"#"})))

wa_score(doc) ==
    OrNaN(IF Len(doc.walkScore) = 0 THEN Raised
          ELSE PyInt(SplitSep(doc.walkScore[1], " ")[1]))

trans_score(doc) ==
    OrNaN(IF Len(doc.transitScore) = 0 THEN Raised
          ELSE PyInt(doc.transitScore[1]))

\* div.findAll("div", {"class": "Tag__text"}) of a point-of-interest widget
TagTexts(widget) ==
    LET tags == SelectSeq(widget, LAMBDA c : c[1] = "Tag__text")
    IN  [k \in 1..Len(tags) |-> tags[k][2]]

\* widget.text: the text of all its descendants
WidgetText(widget) == Concat([k \in 1..Len(widget) |-> widget[k][2]])

\* int(tags[index].get_text()) for a Python index (negative: from the end);
\* IndexError or ValueError is Raised
TagCount(tags, index) ==
    LET pos == IF index >= 0 THEN index + 1 ELSE Len(tags) + index + 1
    IN  IF pos \in 1..Len(tags) THEN PyInt(tags[pos]) ELSE Raised

\* the body of the point-of-interest loop for one widget: the five counts
\* <<groceries, services, emergency, shopping, food_drink>>, or Raised
PoiCounts(widget) ==
    LET tags == TagTexts(widget)
        c == << TagCount(tags, 1), TagCount(tags, -1), TagCount(tags, -2),
                TagCount(tags, 4), TagCount(tags, 2) >>
    IN  IF \E k \in 1..5 : c[k] = Raised THEN Raised ELSE c

\* the variables groceries .. food_drink are left unassigned
Unbound == <<"unbound">>

\* the point-of-interest loop, which is in no try: the counts of the last
\* widget, Raised when a widget raises, Unbound when there is no widget
poi_loop(widgets) ==
    IF \E k \in 1..Len(widgets) : PoiCounts(widgets[k]) = Raised THEN Raised
    ELSE IF Len(widgets) = 0 THEN Unbound
    ELSE PoiCounts(widgets[Len(widgets)])

Nearby_Items(doc) ==
    OrNaN(IF Len(doc.PointOfInterestWidget) = 0 THEN Raised
          ELSE Str(WidgetText(doc.PointOfInterestWidget[1])))

Competitive_Score(doc) == OrNaN(FindText(doc.competeScore))

activity_lis(doc) == doc.activityCount

\* try: x = activity_lis[index] / except: x = np.nan
ActivityAt(doc, index) ==
    IF index + 1 <= Len(activity_lis(doc))
    THEN Str(activity_lis(doc)[index + 1]) ELSE NaN

view_count(doc) == ActivityAt(doc, 0)
fav_count_30(doc) == ActivityAt(doc, 1)
fav_all_time(doc) == ActivityAt(doc, 2)

\* school_dict with the bug of keeping the first rating of a name
school_dict_keep_first(doc) ==
    LET pairs == Zip(doc.schoolName,
                     [k \in 1..Len(doc.ratingNum) |-> Str(doc.ratingNum[k])])
        first(k) == \A m \in 1..(k - 1) : pairs[m][1] # pairs[k][1]
        F[k \in 0..Len(pairs)] ==
            IF k = 0 THEN << >>
            ELSE IF first(k) THEN Append(F[k - 1], pairs[k]) ELSE F[k - 1]
    IN  F[Len(pairs)]

\* lines 305-321
school_dict(doc) ==
    DictUpdate(<< >>, Zip(doc.schoolName,
                          [k \in 1..Len(doc.ratingNum) |-> Str(doc.ratingNum[k])]))

\* Flag with the bug of testing the first keyword of the list only
Flag_first_keyword(doc, keywords) ==
    LET nearby == Nearby_Items(doc)
    IN  IF nearby = NaN THEN IntV(0)
        ELSE IF Contains(nearby[2], keywords[1]) THEN IntV(1) ELSE IntV(0)

\* try: if any(k in Nearby_Items for k in keywords): flag = 1 / except:
\* flag = 0, the flag being 0 before.  k in np.nan raises TypeError.
Flag(doc, keywords) ==
    LET nearby == Nearby_Items(doc)
    IN  IF nearby = NaN THEN IntV(0)
        ELSE IF \E k \in 1..Len(keywords) : Contains(nearby[2], keywords[k])
        THEN IntV(1) ELSE IntV(0)

\* the dict literal l, given the five point-of-interest counts
NamedFields(doc, poi) ==
    << <<k_List_price, price(doc)>>,
       <<k_Address, Address(doc)>>,
       <<k_Beds, beds(doc)>>,
       <<k_Baths, bath(doc)>>,
       <<k_Living_sqft, living_sqft(doc)>>,
       <<k_Drought_Score, d_score(doc)>>,
       <<k_Walk_score, wa_score(doc)>>,
       <<k_Neighbourhood_Homes, nbd_homes(doc)>>,
       <<k_Transit_score, trans_score(doc)>>,
       <<k_Groceries_stores, poi[1]>>,
       <<k_Services, poi[2]>>,
       <<k_Emergency, poi[3]>>,
       <<k_Shopping, poi[4]>>,
       <<k_Food_and_Drink, poi[5]>>,
       <<k_Schools, ListOf(school_dict(doc))>>,
       <<k_Competitive_Score, Competitive_Score(doc)>>,
       <<k_page_view_count, view_count(doc)>>,
       <<k_page_fav_count_30, fav_count_30(doc)>>,
       <<k_page_fav_all_time_count, fav_all_time(doc)>>,
       <<k_has_supercenter, Flag(doc, SuperCenters)>>,
       <<k_has_major_indian_grocery, Flag(doc, Major_Indian_Grocery)>>,
       <<k_has_major_entertainment, Flag(doc, Major_Entertainment)>>,
       <<k_has_indian_restaurant, Flag(doc, << kw_Indian_Restaurant >>)>>,
       <<k_has_chinese_restaurant, Flag(doc, << kw_Chinese_Restaurant >>)>>,
       <<k_has_mexican_restaurant, Flag(doc, << kw_Mexican_Restaurant >>)>>,
       <<k_has_boba, Flag(doc, Boba)>>,
       <<k_has_starbucks, Flag(doc, << kw_Starbucks >>)>>,
       <<k_has_healthcare_support, Flag(doc, Healthcare)>>,
       <<k_has_mall, Flag(doc, << kw_Mall >>)>> >>

\* extract_house_details with the bug of leaving out of the record every
\* named field whose rule found nothing
extract_house_details_sparse(doc) ==
    LET table_dict == key_details(doc.keyDetail, << >>)
        poi == poi_loop(doc.PointOfInterestWidget)
    IN  IF ~table_dict.ok \/ poi = Raised \/ poi = Unbound
        THEN [ok |-> FALSE, val |-> << >>]
        ELSE [ok |-> TRUE,
              val |-> DictUpdate(table_dict.val,
                          SelectSeq(NamedFields(doc, poi),
                                    LAMBDA e : e[2] # NaN))]

\* extract_house_details(doc): [ok |-> TRUE, val |-> the record], or
\* [ok |-> FALSE] when an exception leaves the function: IndexError of the
\* key-detail loop, IndexError or ValueError of the point-of-interest loop,
\* UnboundLocalError where l reads a count no loop pass has assigned
extract_house_details(doc) ==
    LET table_dict == key_details(doc.keyDetail, << >>)
        poi == poi_loop(doc.PointOfInterestWidget)
    IN  IF ~table_dict.ok \/ poi = Raised \/ poi = Unbound
        THEN [ok |-> FALSE, val |-> << >>]
        ELSE [ok |-> TRUE,
              val |-> DictUpdate(table_dict.val, NamedFields(doc, poi))]

---------------------------------------------------------------------------
\* The pandas table and its CSV form.  A DataFrame is its set of column
\* labels and its rows, each row a function from the column labels to
\* values.  The left-to-right order of the columns is left out: it is the
\* pandas build that decides it (before 1.4 append sorts the new labels,
\* from 1.4 on it keeps the order of the dict) and nothing here reads it.

\* the object ... (Ellipsis), the one label of columns=[...]; no text
Ellipsis == <<"Ellipsis object">>

\* pd.DataFrame(columns=[...])
EmptyFrame == [columns |-> {Ellipsis}, rows |-> << >>]

\* DfAppend with the bug of adding the row twice
DfAppendTwice(df, d) ==
    LET cols == df.columns \cup DictKeys(d)
        old == [r \in 1..Len(df.rows) |->
                   [c \in cols |-> IF c \in df.columns THEN df.rows[r][c]
                                   ELSE NaN]]
        new == [c \in cols |-> IF DictHas(d, c) THEN DictGet(d, c) ELSE NaN]
    IN  [columns |-> cols, rows |-> old \o <<new, new>>]

\* DfAppend with the bug of putting the new row first
DfPrepend(df, d) ==
    LET cols == df.columns \cup DictKeys(d)
        old == [r \in 1..Len(df.rows) |->
                   [c \in cols |-> IF c \in df.columns THEN df.rows[r][c]
                                   ELSE NaN]]
        new == [c \in cols |-> IF DictHas(d, c) THEN DictGet(d, c) ELSE NaN]
    IN  [columns |-> cols, rows |-> <<new>> \o old]

\* details_df.append(house_dict, ignore_index=True), as pandas 1.x has it
\* (setup.py asks for pandas>=1.2.0; pandas 2 has no append): the labels
\* become the
\* union of the columns and the keys of the dict, the rows there
\* were get NaN in the new columns, and one row is added at the end, with
\* NaN in the columns the dict has no key for
DfAppend(df, d) ==
    LET cols == df.columns \cup DictKeys(d)
        old == [r \in 1..Len(df.rows) |->
                   [c \in cols |-> IF c \in df.columns THEN df.rows[r][c]
                                   ELSE NaN]]
        new == [c \in cols |-> IF DictHas(d, c) THEN DictGet(d, c) ELSE NaN]
    IN  [columns |-> cols, rows |-> Append(old, new)]

\* str(n) of an int
IntText(n) == IF n < 0 THEN <<"-">> \o NatText(-n) ELSE NatText(n)

\* the decimals of a float, as many digits as given
Decimals(n, digits) ==
    LET t == NatText(n)
    IN  [k \in 1..(digits - Len(t)) |-> "0"] \o t

\* repr(x) of a float: at least one decimal
FloatText(mantissa, decimals) ==
    LET a == IF mantissa < 0 THEN -mantissa ELSE mantissa
        whole == NatText(a \div Pow10(decimals))
        frac == IF decimals = 0 THEN <<"0">>
                ELSE Decimals(a % Pow10(decimals), decimals)
    IN  (IF mantissa < 0 THEN <<"-">> ELSE << >>) \o whole \o <<".">> \o frac

\* repr(s) of a str without quotes or backslashes
ReprStr(s) == <<"'">> \o s \o <<"'">>

RECURSIVE ReprItems(_)
\* the items of the repr of a dict from str to str
ReprItems(d) ==
    IF Len(d) = 0 THEN << >>
    ELSE ReprStr(d[1][1]) \o <<":", " ">> \o ReprStr(d[1][2][2])
         \o (IF Len(d) > 1 THEN <<",", " ">> ELSE << >>) \o ReprItems(Tail(d))

\* what to_csv writes for one value: nothing for NaN, the text of a str,
\* the digits of a number, str() of the list holding the school dict.  The
\* columns hold Python objects (the frame starts from an object column and
\* rows of mixed types), so a value is written by its own type.  The quotes
\* the writer puts around a cell that contains a comma are left out, a line
\* being kept as its cells.
CsvCell(v) ==
    CASE v[1] = "nan" -> << >>
      [] v[1] = "str" -> v[2]
      [] v[1] = "int" -> IntText(v[2])
      [] v[1] = "float" -> FloatText(v[2], v[3])
      [] v[1] = "list" -> <<"[", "{">> \o ReprItems(v[2]) \o <<"}", "]">>

\* the header cell of a column: str(label)
ColumnName(c) == IF c = Ellipsis THEN t_Ellipsis ELSE c

\* the content to_csv(filename, index=False) gives the file: the header
\* line and one line per row, no row labels
ToCsv(df) ==
    [state |-> "written",
     header |-> [c \in df.columns |-> ColumnName(c)],
     lines |-> [r \in 1..Len(df.rows) |->
                   [c \in df.columns |-> CsvCell(df.rows[r][c])]]]

\* the destination before anything is written to it
NoFile == [state |-> "absent", header |-> << >>, lines |-> << >>]

\* the destination opened for writing and nothing written: to_csv opens
\* with mode "w"
Truncated == [state |-> "truncated", header |-> << >>, lines |-> << >>]

\* what a to_csv that raises OSError can leave behind: the file as it was
\* (open failed) or cut to nothing (the write failed)
FailedWrite(old) == {old, Truncated}

---------------------------------------------------------------------------
\* The run: scrape_and_save_property_details(url_list, filename, batch_size).

\* time.sleep(3)
SleepSeconds == 3

\* no record in hand
NoRecord == [ok |-> FALSE, val |-> << >>]

\* no document in hand
NoDoc == [w \in Widgets |-> << >>]

\* the listing pages the site serves in the model of the run: the fully
\* rendered page, a page without point-of-interest widget, and a page
\* without price whose details table has another label
RunDocs ==
    { FullDoc,
      Altered({"PointOfInterestWidget"}, [PointOfInterestWidget |-> 1]),
      Altered({"keyDetail", "statsValue"}, [keyDetail |-> 3, statsValue |-> 1]) }

Init ==
    /\ url_list \in {[k \in 1..n |-> k] : n \in 0..MaxUrls}
    /\ batch_size \in 0..MaxBatch
    /\ i = 0
    /\ pc = "for"
    /\ house_doc = NoDoc
    /\ house_dict = NoRecord
    /\ details_df = EmptyFrame
    /\ origin = << >>
    /\ failed = {}
    /\ file = NoFile
    /\ effects = << >>
    /\ mainurldoc = << >>
    /\ docs = << >>
    /\ house_urls = << >>
    /\ dataframe = EmptyFrame
    /\ threshold_ratio = <<0, 1>>
    /\ cleaned = EmptyFrame

\* except Exception: pass, then the next pass of the loop
ExceptPass ==
    /\ i' = i + 1
    /\ pc' = "for"
    /\ house_doc' = NoDoc
    /\ house_dict' = NoRecord

\* line 118: fetch_house_doc(url) returns the page
FetchOk ==
    /\ pc = "for" /\ i < Len(url_list)
    /\ effects' = Append(effects, <<"fetch", url_list[i + 1]>>)
    /\ \E d \in RunDocs : house_doc' = d
    /\ pc' = "extract"
    /\ UNCHANGED <<url_list, batch_size, i, house_dict, details_df, origin,
                   failed, file, mainurldoc, docs, house_urls, dataframe,
                   threshold_ratio, cleaned>>

\* FetchFails with the bug of no try around the fetch: the exception leaves
\* the function
FetchFailsUncaught ==
    /\ pc = "for" /\ i < Len(url_list)
    /\ effects' = Append(effects, <<"fetch", url_list[i + 1]>>)
    /\ failed' = failed \cup {i}
    /\ pc' = "raised"
    /\ UNCHANGED <<url_list, batch_size, i, house_doc, house_dict, details_df,
                   origin, file, mainurldoc, docs, house_urls, dataframe,
                   threshold_ratio, cleaned>>

\* FetchFails with the bug of trying the same listing again after its fetch
\* raised
FetchFailsRetry ==
    /\ pc = "for" /\ i < Len(url_list)
    /\ effects' = Append(effects, <<"fetch", url_list[i + 1]>>)
    /\ failed' = failed \cup {i}
    /\ UNCHANGED <<url_list, batch_size, i, pc, house_doc, house_dict,
                   details_df, origin, file, mainurldoc, docs, house_urls,
                   dataframe, threshold_ratio, cleaned>>

\* line 118: fetch_house_doc(url) raises (URLError, HTTPError, ...)
FetchFails ==
    /\ pc = "for" /\ i < Len(url_list)
    /\ effects' = Append(effects, <<"fetch", url_list[i + 1]>>)
    /\ failed' = failed \cup {i}
    /\ ExceptPass
    /\ UNCHANGED <<url_list, batch_size, details_df, origin, file, mainurldoc,
                   docs, house_urls, dataframe, threshold_ratio, cleaned>>

\* line 119: extract_house_details(house_doc) returns the record
ExtractOk ==
    /\ pc = "extract"
    /\ extract_house_details(house_doc).ok
    /\ house_dict' = extract_house_details(house_doc)
    /\ pc' = "append"
    /\ UNCHANGED <<url_list, batch_size, i, house_doc, details_df, origin,
                   failed, file, effects, mainurldoc, docs, house_urls,
                   dataframe, threshold_ratio, cleaned>>

\* ExtractFails with the bug of going on to the append, with an empty
\* record, after the extraction raised
ExtractFailsAppendsEmpty ==
    /\ pc = "extract"
    /\ ~extract_house_details(house_doc).ok
    /\ failed' = failed \cup {i}
    /\ house_dict' = NoRecord
    /\ pc' = "append"
    /\ UNCHANGED <<url_list, batch_size, i, house_doc, details_df, origin,
                   file, effects, mainurldoc, docs, house_urls, dataframe,
                   threshold_ratio, cleaned>>

\* line 119: extract_house_details(house_doc) raises
ExtractFails ==
    /\ pc = "extract"
    /\ ~extract_house_details(house_doc).ok
    /\ failed' = failed \cup {i}
    /\ ExceptPass
    /\ UNCHANGED <<url_list, batch_size, details_df, origin, file, effects,
                   mainurldoc, docs, house_urls, dataframe, threshold_ratio,
                   cleaned>>

\* line 120: the record is appended to the table
AppendRecord ==
    /\ pc = "append"
    /\ details_df' = DfAppend(details_df, house_dict.val)
    /\ origin' = Append(origin, i)
    /\ pc' = "checkpoint"
    /\ UNCHANGED <<url_list, batch_size, i, house_doc, house_dict, failed,
                   file, effects, mainurldoc, docs, house_urls, dataframe,
                   threshold_ratio, cleaned>>

\* CheckpointDue with the bug of counting the listings from one
CheckpointDueOneBased == (i + 1) % batch_size = 0

\* line 122: i % batch_size == 0, evaluated for batch_size # 0
CheckpointDue == i % batch_size = 0

\* CheckpointDivZero with the bug of no try around the test: the exception
\* leaves the function
CheckpointDivZeroUncaught ==
    /\ pc = "checkpoint" /\ batch_size = 0
    /\ pc' = "raised"
    /\ UNCHANGED <<url_list, batch_size, i, house_doc, house_dict, details_df,
                   origin, failed, file, effects, mainurldoc, docs, house_urls,
                   dataframe, threshold_ratio, cleaned>>

\* line 122: i % 0 raises ZeroDivisionError
CheckpointDivZero ==
    /\ pc = "checkpoint" /\ batch_size = 0
    /\ ExceptPass
    /\ UNCHANGED <<url_list, batch_size, details_df, origin, failed, file,
                   effects, mainurldoc, docs, house_urls, dataframe,
                   threshold_ratio, cleaned>>

\* line 122: no checkpoint in this pass
CheckpointSkip ==
    /\ pc = "checkpoint" /\ batch_size # 0 /\ ~CheckpointDue
    /\ pc' = "sleep"
    /\ UNCHANGED <<url_list, batch_size, i, house_doc, house_dict, details_df,
                   origin, failed, file, effects, mainurldoc, docs,
                   house_urls, dataframe, threshold_ratio, cleaned>>

\* CheckpointWrite with the bug of writing only the records appended since
\* the last write, instead of the whole table
CheckpointWriteBatchOnly ==
    /\ pc = "checkpoint" /\ batch_size # 0 /\ CheckpointDue
    /\ file' = ToCsv([details_df EXCEPT
                        !.rows = SubSeq(details_df.rows, Len(file.lines) + 1,
                                        Len(details_df.rows))])
    /\ effects' = Append(effects, <<"to_csv", "written">>)
    /\ pc' = "sleep"
    /\ UNCHANGED <<url_list, batch_size, i, house_doc, house_dict, details_df,
                   origin, failed, mainurldoc, docs, house_urls, dataframe,
                   threshold_ratio, cleaned>>

\* line 123: the checkpoint write
CheckpointWrite ==
    /\ pc = "checkpoint" /\ batch_size # 0 /\ CheckpointDue
    /\ file' = ToCsv(details_df)
    /\ effects' = Append(effects, <<"to_csv", "written">>)
    /\ pc' = "sleep"
    /\ UNCHANGED <<url_list, batch_size, i, house_doc, house_dict, details_df,
                   origin, failed, mainurldoc, docs, house_urls, dataframe,
                   threshold_ratio, cleaned>>

\* CheckpointWriteFails with the bug of no try around the checkpoint write:
\* the exception leaves the function
CheckpointWriteFailsFatal ==
    /\ pc = "checkpoint" /\ batch_size # 0 /\ CheckpointDue
    /\ file' \in FailedWrite(file)
    /\ effects' = Append(effects, <<"to_csv", "OSError">>)
    /\ pc' = "raised"
    /\ UNCHANGED <<url_list, batch_size, i, house_doc, house_dict, details_df,
                   origin, failed, mainurldoc, docs, house_urls, dataframe,
                   threshold_ratio, cleaned>>

\* line 123: the checkpoint write raises OSError
CheckpointWriteFails ==
    /\ pc = "checkpoint" /\ batch_size # 0 /\ CheckpointDue
    /\ file' \in FailedWrite(file)
    /\ effects' = Append(effects, <<"to_csv", "OSError">>)
    /\ ExceptPass
    /\ UNCHANGED <<url_list, batch_size, details_df, origin, failed,
                   mainurldoc, docs, house_urls, dataframe, threshold_ratio,
                   cleaned>>

\* line 125: time.sleep(3), the end of the pass
Sleep ==
    /\ pc = "sleep"
    /\ effects' = Append(effects, <<"sleep", SleepSeconds>>)
    /\ i' = i + 1
    /\ pc' = "for"
    /\ house_doc' = NoDoc
    /\ house_dict' = NoRecord
    /\ UNCHANGED <<url_list, batch_size, details_df, origin, failed, file,
                   mainurldoc, docs, house_urls, dataframe, threshold_ratio,
                   cleaned>>

\* FinalWrite with the bug of returning the table without the final write
FinalWriteMissing ==
    /\ pc = "for" /\ i = Len(url_list)
    /\ pc' = "returned"
    /\ UNCHANGED <<url_list, batch_size, i, house_doc, house_dict, details_df,
                   origin, failed, file, effects, mainurldoc, docs,
                   house_urls, dataframe, threshold_ratio, cleaned>>

\* lines 131-132: the final write, and the table is returned
FinalWrite ==
    /\ pc = "for" /\ i = Len(url_list)
    /\ file' = ToCsv(details_df)
    /\ effects' = Append(effects, <<"to_csv", "written">>)
    /\ pc' = "returned"
    /\ UNCHANGED <<url_list, batch_size, i, house_doc, house_dict, details_df,
                   origin, failed, mainurldoc, docs, house_urls, dataframe,
                   threshold_ratio, cleaned>>

\* line 131: the final write raises OSError, which leaves the function
FinalWriteFails ==
    /\ pc = "for" /\ i = Len(url_list)
    /\ file' \in FailedWrite(file)
    /\ effects' = Append(effects, <<"to_csv", "OSError">>)
    /\ pc' = "raised"
    /\ UNCHANGED <<url_list, batch_size, i, house_doc, house_dict, details_df,
                   origin, failed, mainurldoc, docs, house_urls, dataframe,
                   threshold_ratio, cleaned>>

Next ==
    \/ FetchOk
    \/ FetchFails
    \/ ExtractOk
    \/ ExtractFails
    \/ AppendRecord
    \/ CheckpointDivZero
    \/ CheckpointSkip
    \/ CheckpointWrite
    \/ CheckpointWriteFails
    \/ Sleep
    \/ FinalWrite
    \/ FinalWriteFails

Spec == Init /\ [][Next]_vars

---------------------------------------------------------------------------
\* The extractor alone: extract_house_details applied to one document, the
\* fully rendered page with at most MaxAltered widgets replaced.

InitX ==
    /\ url_list = << >>
    /\ batch_size = 1
    /\ i = 0
    /\ pc = "call"
    /\ \E ws \in SUBSET Widgets :
          /\ Cardinality(ws) <= MaxAltered
          /\ \E alt \in AlternativeChoices(ws) : house_doc = Altered(ws, alt)
    /\ house_dict = NoRecord
    /\ details_df = EmptyFrame
    /\ origin = << >>
    /\ failed = {}
    /\ file = NoFile
    /\ effects = << >>
    /\ mainurldoc = << >>
    /\ docs = << >>
    /\ house_urls = << >>
    /\ dataframe = EmptyFrame
    /\ threshold_ratio = <<0, 1>>
    /\ cleaned = EmptyFrame

\* extract_house_details(house_doc) returns or raises
Extraction ==
    /\ pc = "call"
    /\ house_dict' = extract_house_details(house_doc)
    /\ pc' = "result"
    /\ UNCHANGED <<url_list, batch_size, i, house_doc, details_df, origin,
                   failed, file, effects, mainurldoc, docs, house_urls,
                   dataframe, threshold_ratio, cleaned>>

NextX == Extraction

SpecX == InitX /\ [][NextX]_vars

---------------------------------------------------------------------------
\* URL discovery: URLFetcher.fetch_page_urls(main_url, house_doc_fetcher)
\* and, on the list it returns, HouseURLExtractor.extract_house_urls(url_list,
\* house_doc_fetcher).  A seed page is the sequence of its anchors in
\* document order, an anchor being <<class attribute, has an href, href>>; a
\* result page is the sequence of its listing cards (div.bottomV2) in
\* document order, a card being <<its first anchor has an href, href>>.

\* line 58
base_url ==
    <<"h", "t", "t", "p", "s", ":", "/", "/", "w", "w", "w", ".", "r", "e",
      "d", "f", "i", "n", ".", "c", "o", "m">>

\* the literal of line 92
listing_prefix ==
    <<"h", "t", "t", "p", "s", ":", "/", "/", "w", "w", "w", ".", "r", "e",
      "d", "f", "i", "n", ".", "c", "o", "m", "/">>

\* the seed URL of the model
main_url ==
    <<"h", "t", "t", "p", "s", ":", "/", "/", "w", "w", "w", ".", "r", "e",
      "d", "f", "i", "n", ".", "c", "o", "m", "/", "c", "i", "t", "y", "/",
      "1">>

\* the class attribute of a pagination control
GoToPage == "clickable goToPage"

h_page2 == <<"/", "p", "a", "g", "e", "-", "2">>
h_page3 == <<"p", "a", "g", "e", "-", "3">>
h_about == <<"/", "a", "b", "o", "u", "t">>
h_property123 ==
    <<"/", "p", "r", "o", "p", "e", "r", "t", "y", "/", "1", "2", "3">>
h_property45 == <<"p", "r", "o", "p", "e", "r", "t", "y", "/", "4", "5">>
h_slashes == <<"/", "/", "c", "d", "n", "/", "9">>

\* the anchors a seed page may hold, listed: pagination controls with an
\* href with and without leading slash, a pagination control without href,
\* and an anchor that is no pagination control
SeedAnchors ==
    << <<GoToPage, TRUE, h_page2>>,
       <<GoToPage, TRUE, h_page3>>,
       <<GoToPage, FALSE, << >>>>,
       <<"nav link", TRUE, h_about>> >>

\* the seed pages the site may serve: at most MaxAnchors anchors
SeedDocs ==
    UNION {{[k \in 1..n |-> SeedAnchors[f[k]]] :
               f \in [1..n -> 1..Len(SeedAnchors)]} : n \in 0..MaxAnchors}

\* the result pages the site may serve: two listings (hrefs with and without
\* leading slash), none, a listing that another page has too, hrefs that
\* are empty or begin with two slashes, and a card whose anchor has no href
PageDocs ==
    { << <<TRUE, h_property123>>, <<TRUE, h_property45>> >>,
      << >>,
      << <<TRUE, h_property123>> >>,
      << <<TRUE, << >>>>, <<TRUE, h_slashes>> >>,
      << <<TRUE, h_property45>>, <<FALSE, << >>>> >> }

\* mainurldoc.findAll("a", {"class": "clickable goToPage"}, href=True)
findAll_goToPage(doc) == SelectSeq(doc, LAMBDA a : a[1] = GoToPage /\ a[2])

\* line 63: base_url + hrefs["href"]
next_page(href) == base_url \o href

\* fetch_page_urls with the bug of leaving the seed URL out of the list
fetch_page_urls_no_seed(doc) ==
    LET anchors == findAll_goToPage(doc)
    IN  [k \in 1..Len(anchors) |-> next_page(anchors[k][3])]

\* lines 59-65: the list fetch_page_urls returns for the seed page doc
fetch_page_urls(doc) ==
    LET anchors == findAll_goToPage(doc)
    IN  <<main_url>> \o [k \in 1..Len(anchors) |-> next_page(anchors[k][3])]

\* full_url with the bug of keeping the leading slash of the href
full_url_keeps_slash(href) == listing_prefix \o href

\* lines 89-92: one leading slash of a non-empty href is dropped, and the
\* literal is put before it
full_url(href) ==
    listing_prefix
        \o (IF Len(href) > 0 /\ StartsWith(href, <<"/">>) THEN Tail(href)
            ELSE href)

\* line 89-92 for a card without href: div.a.get("href") is None and the
\* concatenation raises TypeError, in no try
CardRaises(divs) == \E k \in 1..Len(divs) : ~divs[k][1]

\* append_cards with the bug of skipping the URLs the list already has
append_cards_dedup(urls, divs) ==
    LET new == [k \in 1..Len(divs) |-> full_url(divs[k][2])]
        seen(k) == \/ \E n \in 1..Len(urls) : urls[n] = new[k]
                   \/ \E n \in 1..(k - 1) : new[n] = new[k]
        keep == {k \in 1..Len(new) : ~seen(k)}
        rank(k) == Cardinality({n \in keep : n <= k})
    IN  urls \o [r \in 1..Cardinality(keep) |->
                    new[CHOOSE k \in keep : rank(k) = r]]

\* lines 88-93: the inner loop over the cards of one page, none of which
\* raises: house_urls with the URL of every card appended at its end
append_cards(urls, divs) ==
    urls \o [k \in 1..Len(divs) |-> full_url(divs[k][2])]

InitU ==
    /\ url_list = << >>
    /\ batch_size = 1
    /\ i = 0
    /\ pc = "fetch_page_urls"
    /\ house_doc = NoDoc
    /\ house_dict = NoRecord
    /\ details_df = EmptyFrame
    /\ origin = << >>
    /\ failed = {}
    /\ file = NoFile
    /\ effects = << >>
    /\ mainurldoc \in SeedDocs
    /\ docs = << >>
    /\ house_urls = << >>
    /\ dataframe = EmptyFrame
    /\ threshold_ratio = <<0, 1>>
    /\ cleaned = EmptyFrame

\* lines 57-65: the seed page is fetched and the list of page URLs returned
FetchPageUrls ==
    /\ pc = "fetch_page_urls"
    /\ effects' = Append(effects, <<"fetch", main_url>>)
    /\ url_list' = fetch_page_urls(mainurldoc)
    /\ pc' = "for_url"
    /\ UNCHANGED <<batch_size, i, house_doc, house_dict, details_df, origin,
                   failed, file, mainurldoc, docs, house_urls, dataframe,
                   threshold_ratio, cleaned>>

\* line 57: the fetch of the seed page raises, in no try
FetchPageUrlsRaises ==
    /\ pc = "fetch_page_urls"
    /\ effects' = Append(effects, <<"fetch", main_url>>)
    /\ pc' = "raised"
    /\ UNCHANGED <<url_list, batch_size, i, house_doc, house_dict, details_df,
                   origin, failed, file, mainurldoc, docs, house_urls,
                   dataframe, threshold_ratio, cleaned>>

\* lines 85-93: one pass of the loop over the page URLs, the page fetched
\* and the URL of every card appended
PageOk ==
    /\ pc = "for_url" /\ i < Len(url_list)
    /\ \E divs \in PageDocs :
          /\ ~CardRaises(divs)
          /\ docs' = Append(docs, divs)
          /\ house_urls' = append_cards(house_urls, divs)
    /\ effects' = Append(effects, <<"fetch", url_list[i + 1]>>)
    /\ i' = i + 1
    /\ UNCHANGED <<url_list, batch_size, pc, house_doc, house_dict,
                   details_df, origin, failed, file, mainurldoc, dataframe,
                   threshold_ratio, cleaned>>

\* lines 89-92: a card of the page raises, in no try; house_urls is lost
PageCardRaises ==
    /\ pc = "for_url" /\ i < Len(url_list)
    /\ \E divs \in PageDocs :
          /\ CardRaises(divs)
          /\ docs' = Append(docs, divs)
    /\ effects' = Append(effects, <<"fetch", url_list[i + 1]>>)
    /\ pc' = "raised"
    /\ UNCHANGED <<url_list, batch_size, i, house_doc, house_dict, details_df,
                   origin, failed, file, mainurldoc, house_urls, dataframe,
                   threshold_ratio, cleaned>>

\* PageFetchRaises with the bug of catching the exception and going on with
\* the next page
PageFetchSkipped ==
    /\ pc = "for_url" /\ i < Len(url_list)
    /\ effects' = Append(effects, <<"fetch", url_list[i + 1]>>)
    /\ i' = i + 1
    /\ UNCHANGED <<url_list, batch_size, pc, house_doc, house_dict, details_df,
                   origin, failed, file, mainurldoc, docs, house_urls,
                   dataframe, threshold_ratio, cleaned>>

\* line 86: the fetch of a page raises, in no try
PageFetchRaises ==
    /\ pc = "for_url" /\ i < Len(url_list)
    /\ effects' = Append(effects, <<"fetch", url_list[i + 1]>>)
    /\ pc' = "raised"
    /\ UNCHANGED <<url_list, batch_size, i, house_doc, house_dict, details_df,
                   origin, failed, file, mainurldoc, docs, house_urls,
                   dataframe, threshold_ratio, cleaned>>

\* line 94: house_urls is returned
ReturnHouseUrls ==
    /\ pc = "for_url" /\ i = Len(url_list)
    /\ pc' = "returned"
    /\ UNCHANGED <<url_list, batch_size, i, house_doc, house_dict, details_df,
                   origin, failed, file, effects, mainurldoc, docs,
                   house_urls, dataframe, threshold_ratio, cleaned>>

NextU ==
    \/ FetchPageUrls
    \/ FetchPageUrlsRaises
    \/ PageOk
    \/ PageCardRaises
    \/ PageFetchRaises
    \/ ReturnHouseUrls

SpecU == InitU /\ [][NextU]_vars

---------------------------------------------------------------------------
\* Cleaning: DataCleaner.drop_high_missing_columns(dataframe,
\* threshold_ratio) of scraping_data_cleaning.py.  A ratio is the pair
\* <<numerator, denominator>>; the ratios of the model are multiples of a
\* quarter, for which the float product threshold_ratio * len(dataframe) is
\* exact.

\* the ratios given
Ratios == << <<0, 1>>, <<1, 4>>, <<1, 2>>, <<3, 4>>, <<1, 1>> >>

\* the tables given: two columns, at most MaxRows rows, every cell a value
\* or missing
Tables ==
    UNION {{[columns |-> {k_Beds, k_Baths}, rows |-> rows] :
               rows \in [1..n -> [{k_Beds, k_Baths} -> {NaN, IntV(1)}]]} :
           n \in 0..MaxRows}

\* the number of values of column c that are not missing
notna_count(df, c) ==
    Cardinality({r \in 1..Len(df.rows) : df.rows[r][c] # NaN})

\* lines 68-69: threshold = threshold_ratio * len(dataframe), and
\* dropna(thresh=threshold, axis=1) keeps the columns that have at least
\* threshold values that are not missing
drop_high_missing_columns(df, ratio) ==
    LET keep == {c \in df.columns :
                    notna_count(df, c) * ratio[2] >= ratio[1] * Len(df.rows)}
    IN  [columns |-> keep,
         rows |-> [r \in 1..Len(df.rows) |-> [c \in keep |-> df.rows[r][c]]]]

InitD ==
    /\ url_list = << >>
    /\ batch_size = 1
    /\ i = 0
    /\ pc = "clean"
    /\ house_doc = NoDoc
    /\ house_dict = NoRecord
    /\ details_df = EmptyFrame
    /\ origin = << >>
    /\ failed = {}
    /\ file = NoFile
    /\ effects = << >>
    /\ mainurldoc = << >>
    /\ docs = << >>
    /\ house_urls = << >>
    /\ dataframe \in Tables
    /\ \E n \in 1..Len(Ratios) : threshold_ratio = Ratios[n]
    /\ cleaned = EmptyFrame

\* drop_high_missing_columns(dataframe, threshold_ratio) returns
DropHighMissingColumns ==
    /\ pc = "clean"
    /\ cleaned' = drop_high_missing_columns(dataframe, threshold_ratio)
    /\ pc' = "cleaned"
    /\ UNCHANGED <<url_list, batch_size, i, house_doc, house_dict, details_df,
                   origin, failed, file, effects, mainurldoc, docs, house_urls,
                   dataframe, threshold_ratio>>

NextD == DropHighMissingColumns

SpecD == InitD /\ [][NextD]_vars

---------------------------------------------------------------------------
\* What the claims speak of.

\* the positions of effects that hold an event of the given kind
EventsOf(kind) == {p \in 1..Len(effects) : effects[p][1] = kind}

\* a to_csv has raised
WriteFailed == \E p \in EventsOf("to_csv") : effects[p][2] = "OSError"

\* the number of listings whose processing has begun
NumFetched == Cardinality(EventsOf("fetch"))

\* the run is between two listings, or before the first, or after the last
BetweenListings == pc = "for"

StrictlyIncreasing(s) == \A p \in 1..Len(s) : \A q \in 1..Len(s) : p < q => s[p] < s[q]

\* every row of the table old is a row of new, at the same place and with
\* the same values
RowsKept(old, new) ==
    /\ Len(new.rows) >= Len(old.rows)
    /\ old.columns \subseteq new.columns
    /\ \A r \in 1..Len(old.rows) :
          \A c \in old.columns : new.rows[r][c] = old.rows[r][c]

---------------------------------------------------------------------------
\* C1: when the fetch or the extraction of a listing raises, no record is
\* added for that listing and the loop goes on with the next URL; a run has
\* ended only after every URL of the input was fetched, and it ends by an
\* exception only when the final write raises.
C1_FailureSkipsListing ==
    [][/\ failed' # failed =>
            /\ details_df' = details_df
            /\ origin' = origin
            /\ pc' = "for"
            /\ i' = i + 1
       /\ \A j \in failed' : \A p \in 1..Len(origin') : origin'[p] # j
       /\ pc' \in {"returned", "raised"} =>
            /\ NumFetched' = Len(url_list)
            /\ \A k \in 1..Len(url_list) :
                  \E p \in EventsOf("fetch")' : effects'[p][2] = url_list[k]
       /\ pc' = "raised" =>
            /\ pc = "for" /\ i = Len(url_list)
            /\ effects'[Len(effects')] = <<"to_csv", "OSError">>]_vars

\* a run has returned in which a listing failed and a later one was appended
C1_Witness ==
    /\ pc = "returned"
    /\ \E j \in failed : \E p \in 1..Len(origin) : origin[p] > j

\* C2: with batch_size >= 1, once k * batch_size listings have been
\* processed (k >= 1) the destination file holds the full serialization of
\* the records appended so far.  Stated for the runs in which no write has
\* raised and at least one record was appended.
C2_CheckpointProperty ==
    (/\ batch_size >= 1
     /\ BetweenListings /\ i >= 1 /\ i % batch_size = 0
     /\ ~WriteFailed
     /\ Len(details_df.rows) >= 1)
    => file = ToCsv(details_df)

\* C3: when the run returns, the destination file holds the serialization
\* of the whole returned table.
C3_FinalWrite == pc = "returned" => file = ToCsv(details_df)

\* a run over two listings with batch_size 3 has returned two records: the
\* second one was appended after the only checkpoint
C3_Witness ==
    /\ pc = "returned"
    /\ batch_size = 3 /\ Len(url_list) = 2
    /\ Len(details_df.rows) = 2
    /\ Len(file.lines) = 2

\* the named fields a widget is the source of
FieldsOf(w) ==
    CASE w = "keyDetail" -> {}
      [] w = "statsValue" -> {k_List_price}
      [] w = "homeaddress" -> {k_Address}
      [] w = "beds" -> {k_Beds}
      [] w = "baths" -> {k_Baths}
      [] w = "sqFt" -> {k_Living_sqft}
      [] w = "riskValue" -> {k_Drought_Score}
      [] w = "marketCard" -> {k_Neighbourhood_Homes}
      [] w = "walkScore" -> {k_Walk_score}
      [] w = "transitScore" -> {k_Transit_score}
      [] w = "PointOfInterestWidget" ->
            {k_Groceries_stores, k_Services, k_Emergency, k_Shopping,
             k_Food_and_Drink}
      [] w = "competeScore" -> {k_Competitive_Score}
      [] w = "activityCount" ->
            {k_page_view_count, k_page_fav_count_30, k_page_fav_all_time_count}
      [] w = "schoolName" -> {k_Schools}
      [] w = "ratingNum" -> {k_Schools}

\* the amenity flags, which are read off the text of the point-of-interest
\* widget
FlagKeys ==
    {k_has_supercenter, k_has_major_indian_grocery, k_has_major_entertainment,
     k_has_indian_restaurant, k_has_chinese_restaurant,
     k_has_mexican_restaurant, k_has_boba, k_has_starbucks,
     k_has_healthcare_support, k_has_mall}

\* the named fields that have nothing to do with a widget
Unrelated(w) ==
    {NamedKeys[n] : n \in 1..Len(NamedKeys)}
        \ (FieldsOf(w) \cup (IF w = "PointOfInterestWidget" THEN FlagKeys ELSE {}))

\* the widget is absent from the page, or its text is not what its rule parses
Broken(w) ==
    CASE w \in {"keyDetail", "activityCount", "schoolName", "ratingNum"} ->
            { << >> }
      [] w = "PointOfInterestWidget" -> {Alternatives(w)[n] : n \in 1..3}
      [] OTHER -> {Alternatives(w)[n] : n \in 1..Len(Alternatives(w))}

\* the value a named field has when its widget is missing
Sentinel(k) == IF k = k_Schools THEN ListOf(<< >>) ELSE NaN

\* C4: for a document in which a widget is absent or unparseable the
\* extractor returns a record, in which the fields of that widget hold the
\* missing sentinel and every unrelated named field holds the value it has
\* when the widget is present.
C4_FieldIsolation ==
    pc = "result" =>
        \A w \in Widgets :
            house_doc[w] \in Broken(w) =>
                /\ house_dict.ok
                /\ \A k \in FieldsOf(w) : DictGet(house_dict.val, k) = Sentinel(k)
                /\ LET present ==
                           extract_house_details([house_doc EXCEPT ![w] = FullDoc[w]])
                   IN  present.ok =>
                           \A k \in Unrelated(w) :
                               DictGet(house_dict.val, k) = DictGet(present.val, k)

\* C5: every record the extractor returns has each of the 29 named fields
\* exactly once, holding the missing sentinel or a value.
C5_SchemaStable ==
    (pc = "result" /\ house_dict.ok) =>
        /\ Len(NamedKeys) = 29
        /\ \A n \in 1..Len(NamedKeys) :
              /\ Cardinality({j \in 1..Len(house_dict.val) :
                                 house_dict.val[j][1] = NamedKeys[n]}) = 1
              /\ DictGet(house_dict.val, NamedKeys[n])[1]
                    \in {"nan", "str", "int", "float", "list"}

\* a record was returned for a page without bed count whose details table
\* has an entry: a missing named field beside a dynamic key
C5_Witness ==
    /\ pc = "result" /\ house_dict.ok
    /\ DictGet(house_dict.val, k_Beds) = NaN
    /\ Len(house_dict.val) > 29

\* C6: the table never has more records than listings whose processing has
\* begun, nor than the input has URLs, and no listing has two records.
C6_AtMostOnePerUrl ==
    /\ Len(details_df.rows) <= NumFetched
    /\ NumFetched <= Len(url_list)
    /\ Len(details_df.rows) = Len(origin)
    /\ \A p \in 1..Len(origin) : \A q \in 1..Len(origin) :
          p # q => origin[p] # origin[q]

\* a run has returned fewer records than URLs, but some
C6_Witness ==
    /\ pc = "returned"
    /\ Len(details_df.rows) >= 1
    /\ Len(details_df.rows) < Len(url_list)

\* C7: every step leaves the table as it is or adds one record at its end,
\* the records there were keeping place and values, and the records are in
\* the order of their URLs in the input.
C7_AppendOnly ==
    [][/\ RowsKept(details_df, details_df')
       /\ \/ details_df' = details_df /\ origin' = origin
          \/ /\ Len(details_df'.rows) = Len(details_df.rows) + 1
             /\ origin' = Append(origin, i)
       /\ StrictlyIncreasing(origin')
       /\ Len(origin') = Len(details_df'.rows)]_vars

\* the table holds two different records, of two listings between which a
\* listing failed
C7_Witness ==
    /\ Len(origin) >= 2
    /\ origin[2] > origin[1] + 1
    /\ details_df.rows[1] # details_df.rows[2]

\* C8: a to_csv that raises ends the run: the exception leaves the function
\* and nothing happens after it.
C8_WriteFailureFatal ==
    \A p \in EventsOf("to_csv") :
        effects[p][2] = "OSError" => (p = Len(effects) /\ pc = "raised")

\* C9: between two fetches that follow each other there is a sleep, whether
\* the listing of the first one was appended or failed.  Stated for the
\* runs with batch_size >= 1 in which no write has raised.
C9_DelayBetweenFetches ==
    (batch_size >= 1 /\ ~WriteFailed) =>
        \A p \in EventsOf("fetch") : \A q \in EventsOf("fetch") :
            p < q => \E s \in EventsOf("sleep") : p < s /\ s < q

\* the records of the table that the destination file does not hold
Unsaved == Len(details_df.rows) - Len(file.lines)

\* C10: with batch_size >= 1, between two listings fewer than batch_size
\* records of the table are missing from the destination file, whatever
\* listings failed.  Stated for the runs in which no write has raised.
C10_BoundedLoss ==
    (batch_size >= 1 /\ BetweenListings /\ ~WriteFailed)
        => Unsaved < batch_size

\* the lines of the file are the first records of the table, in the order
\* of the table: line r is record r, cell by cell in the columns the file has
FileIsPrefix(f, df) ==
    /\ Len(f.lines) <= Len(df.rows)
    /\ DOMAIN f.header \subseteq df.columns
    /\ \A r \in 1..Len(f.lines) :
          \A c \in DOMAIN f.header : f.lines[r][c] = CsvCell(df.rows[r][c])

\* C11: a step that writes the destination gives it the serialization of
\* the whole table accumulated so far, never the new records alone, and at
\* every point of a run the records of a written destination are the first
\* records of the table in memory, in the same order.
C11_FullOverwrite ==
    [][/\ (file' # file /\ file'.state = "written") => file' = ToCsv(details_df)
       /\ file'.state = "written" => FileIsPrefix(file', details_df')]_vars

\* two records were on file when a third one was appended
C11_Witness ==
    /\ file.state = "written"
    /\ Len(file.lines) = 2
    /\ Len(details_df.rows) = 3
    /\ Cardinality(EventsOf("to_csv")) >= 2

\* the indices of the listings of the input, as enumerate() numbers them
Listings == 0..(Len(url_list) - 1)

\* the listings that have a record in the table
Appended == {origin[p] : p \in 1..Len(origin)}

\* the state of listing k.  FETCHING is the step that leaves PENDING: the
\* call of fetch_house_doc, which returns (EXTRACTING) or raises (FAILED)
ListingState(k) ==
    IF k \in Appended THEN "APPENDED"
    ELSE IF k \in failed THEN "FAILED"
    ELSE IF k = i /\ pc \in {"extract", "append"} THEN "EXTRACTING"
    ELSE "PENDING"

\* C12: a listing leaves PENDING by the fetch of its URL, into EXTRACTING
\* or FAILED, and leaves EXTRACTING into APPENDED or FAILED; APPENDED and
\* FAILED are never left; when the run has ended every listing is in
\* exactly one of APPENDED and FAILED, and the table has one record for
\* every APPENDED listing and no other.
C12_ListingStateMachine ==
    [][/\ \A k \in Listings :
             LET s == ListingState(k)
                 t == ListingState(k)'
             IN  /\ s # t =>
                        <<s, t>> \in {<<"PENDING", "EXTRACTING">>,
                                      <<"PENDING", "FAILED">>,
                                      <<"EXTRACTING", "APPENDED">>,
                                      <<"EXTRACTING", "FAILED">>}
                 /\ (s = "PENDING" /\ t # s) =>
                        effects' = Append(effects, <<"fetch", url_list[k + 1]>>)
       /\ pc' \in {"returned", "raised"} =>
             \A k \in Listings : (k \in Appended') # (k \in failed')
       /\ Appended' \cap failed' = {}
       /\ Len(details_df'.rows) = Cardinality(Appended')
       /\ Appended' \subseteq Listings]_vars

\* a run over three listings or more has ended with listings in both
\* terminal states
C12_Witness ==
    /\ pc \in {"returned", "raised"}
    /\ Len(url_list) >= 3
    /\ Appended # {} /\ failed # {}
    /\ Appended \cup failed = Listings

\* the URLs fetched so far, in the order of the fetches
Fetches == SelectSeq(effects, LAMBDA e : e[1] = "fetch")

\* C13: the fetches of a run are the URLs of the input in input order, each
\* at most once and, when the run has ended, each exactly once, whether the
\* fetch returned or raised; a listing is fetched only when the listing
\* before it has been appended or has failed.
C13_OneFetchPerListing ==
    /\ Len(Fetches) <= Len(url_list)
    /\ \A p \in 1..Len(Fetches) : Fetches[p] = <<"fetch", url_list[p]>>
    /\ \A p \in 2..Len(Fetches) : (p - 2) \in Appended \cup failed
    /\ Len(Fetches) \in {i, i + 1}
    /\ pc \in {"returned", "raised"} => Len(Fetches) = Len(url_list)

\* a run over two listings or more has ended in which every fetch raised
C13_Witness ==
    /\ pc \in {"returned", "raised"}
    /\ Len(url_list) >= 2
    /\ failed = Listings
    /\ Len(Fetches) = Len(url_list)
    /\ \A p \in 1..Len(effects) : effects[p][1] # "sleep"

\* the point-of-interest widget is absent from the document, or a widget
\* has fewer count tags than the positions [1], [2], [4], [-1], [-2] need
PoiMissing(doc) ==
    \/ Len(doc.PointOfInterestWidget) = 0
    \/ \E k \in 1..Len(doc.PointOfInterestWidget) :
          Len(TagTexts(doc.PointOfInterestWidget[k])) < 5

\* C14: for a document whose point-of-interest widget is absent or has too
\* few count tags the extractor returns a record, in which the five counts
\* Groceries_stores, Services, Emergency, Shopping and Food_and_Drink are
\* all the missing sentinel and every other named field is present.
C14_PoiGroupMissing ==
    (pc = "result" /\ PoiMissing(house_doc)) =>
        /\ house_dict.ok
        /\ \A k \in FieldsOf("PointOfInterestWidget") :
              DictGet(house_dict.val, k) = NaN
        /\ \A n \in 1..Len(NamedKeys) : DictHas(house_dict.val, NamedKeys[n])

\* C15: for a document without the text of the places nearby the extractor
\* returns a record in which the ten amenity flags are all 0.
C15_FlagsZeroWithoutText ==
    (pc = "result" /\ Nearby_Items(house_doc) = NaN) =>
        /\ house_dict.ok
        /\ \A k \in FlagKeys : DictGet(house_dict.val, k) = IntV(0)

\* the number a price text denotes: the text after the currency symbol, up
\* to the first blank, without its commas, as an int
PriceNumber(text) ==
    PyInt(RemoveChar(SplitWs(SplitSep(text, "$")[2])[1], ","))

RECURSIVE Flatten(_)
\* the elements of the sequences of a sequence, in order
Flatten(seqs) ==
    IF Len(seqs) = 0 THEN << >> ELSE Head(seqs) \o Flatten(Tail(seqs))

\* the listing cards of the pages fetched so far, page by page, each page's
\* cards in document order
Cards == Flatten(docs)

\* the text after the site origin and one slash, for a text that begins so
AfterOrigin(u) == SubSeq(u, Len(base_url) + 2, Len(u))

\* "https://www.redfin.com/property/123"
u_property123 ==
    <<"h", "t", "t", "p", "s", ":", "/", "/", "w", "w", "w", ".", "r", "e",
      "d", "f", "i", "n", ".", "c", "o", "m", "/", "p", "r", "o", "p", "e",
      "r", "t", "y", "/", "1", "2", "3">>

\* C17: the URL of a listing card whose href has at most one leading slash
\* is the site origin, one slash, and the href without its leading slash,
\* the text after that slash not beginning with another one; the href
\* "/property/123" gives "https://www.redfin.com/property/123".
C17_ListingHrefResolution ==
    pc # "raised" =>
        /\ Len(house_urls) = Len(Cards)
        /\ \A n \in 1..Len(house_urls) :
              LET href == Cards[n][2]
                  u == house_urls[n]
              IN  /\ href = h_property123 => u = u_property123
                  /\ ~StartsWith(href, <<"/", "/">>) =>
                        /\ StartsWith(u, base_url)
                        /\ Len(u) > Len(base_url)
                        /\ u[Len(base_url) + 1] = "/"
                        /\ AfterOrigin(u)
                              = (IF StartsWith(href, <<"/">>) THEN Tail(href)
                                 ELSE href)
                        /\ ~StartsWith(AfterOrigin(u), <<"/">>)

\* listing URLs were returned for cards with the href "/property/123", with
\* an href without leading slash and with an empty href
C17_Witness ==
    /\ pc = "returned"
    /\ \E n \in 1..Len(Cards) : Cards[n][2] = h_property123
    /\ \E n \in 1..Len(Cards) : Cards[n][2] = h_property45
    /\ \E n \in 1..Len(Cards) : Cards[n][2] = << >>

\* the pagination controls of the seed page, in document order
Controls == findAll_goToPage(mainurldoc)

\* fetch_page_urls has returned: the run is in extract_house_urls, or has
\* left it
PagesReturned == pc \in {"for_url", "returned"} \/ Len(effects) > 1

\* C18: the page URL built from the href of a pagination control is the
\* site origin, one slash, and the href without its leading slash, and it
\* is the URL the listing-href resolution of extract_house_urls gives for
\* the same href, with or without leading slash.
C18_PaginationHrefResolution ==
    PagesReturned =>
        \A k \in 1..Len(Controls) :
            LET href == Controls[k][3]
                u == url_list[k + 1]
            IN  /\ Len(url_list) >= k + 1
                /\ u = full_url(href)
                /\ StartsWith(u, base_url)
                /\ Len(u) > Len(base_url)
                /\ u[Len(base_url) + 1] = "/"
                /\ ~StartsWith(AfterOrigin(u), <<"/">>)

\* the positions of the seed page that hold a pagination control
ControlPositions ==
    {p \in 1..Len(mainurldoc) :
        mainurldoc[p][1] = GoToPage /\ mainurldoc[p][2]}

\* s ends with the text t
EndsWith(s, t) ==
    /\ Len(t) <= Len(s)
    /\ SubSeq(s, Len(s) - Len(t) + 1, Len(s)) = t

\* C19: the list fetch_page_urls returns is the seed URL followed by one
\* URL for every pagination control of the seed page, in document order
\* and without dropping repeats; for a seed page without pagination
\* control it is the seed URL alone, and the function returns normally.
C19_SeedThenControls ==
    PagesReturned =>
        /\ Len(url_list) >= 1
        /\ url_list[1] = main_url
        /\ Len(url_list) = 1 + Cardinality(ControlPositions)
        /\ \A p \in ControlPositions :
              LET r == Cardinality({q \in ControlPositions : q <= p})
              IN  /\ EndsWith(url_list[1 + r], mainurldoc[p][3])
                  /\ Len(url_list[1 + r])
                        = Len(base_url) + Len(mainurldoc[p][3])
        /\ ControlPositions = {} => url_list = <<main_url>>

\* a seed page with two pagination controls of the same href has given a
\* list of three URLs, the last two equal
C19_Witness ==
    /\ PagesReturned
    /\ Len(url_list) = 3
    /\ url_list[2] = url_list[3]

\* the number of cards of the first n pages fetched
RECURSIVE CardsBefore(_)
CardsBefore(n) == IF n = 0 THEN 0 ELSE CardsBefore(n - 1) + Len(docs[n])

\* C20: the list of listing URLs holds one URL for every card of every
\* page fetched, repeats included: the URLs of the first page in the order
\* of its cards, then those of the second page, and so on, one page for
\* every position of the list of page URLs.
C20_PageThenPosition ==
    pc # "raised" =>
        /\ Len(docs) = i
        /\ pc = "returned" => Len(docs) = Len(url_list)
        /\ Len(house_urls) = CardsBefore(Len(docs))
        /\ \A p \in 1..Len(docs) :
              \A k \in 1..Len(docs[p]) :
                  house_urls[CardsBefore(p - 1) + k] = full_url(docs[p][k][2])

\* the list of page URLs had the same URL twice, and the list of listing
\* URLs returned has the same URL twice, from two pages
C20_Witness ==
    /\ pc = "returned"
    /\ \E p, q \in 1..Len(url_list) : p < q /\ url_list[p] = url_list[q]
    /\ Len(docs) >= 2 /\ Len(docs[1]) >= 1 /\ Len(docs[2]) >= 1
    /\ house_urls[1] = house_urls[Len(docs[1]) + 1]

\* the text of s after its first currency symbol, up to the next one
AfterSymbol(s) ==
    LET at == Occurrences(s, <<"$">>)
        p == CHOOSE a \in at : \A b \in at : a <= b
        later == at \ {p}
    IN  SubSeq(s, p + 1,
               IF later = {} THEN Len(s)
               ELSE (CHOOSE a \in later : \A b \in later : a <= b) - 1)

KeywordsOf(k) ==
    CASE k = k_has_supercenter -> SuperCenters
      [] k = k_has_major_indian_grocery -> Major_Indian_Grocery
      [] k = k_has_major_entertainment -> Major_Entertainment
      [] k = k_has_indian_restaurant -> << kw_Indian_Restaurant >>
      [] k = k_has_chinese_restaurant -> << kw_Chinese_Restaurant >>
      [] k = k_has_mexican_restaurant -> << kw_Mexican_Restaurant >>
      [] k = k_has_boba -> Boba
      [] k = k_has_starbucks -> << kw_Starbucks >>
      [] k = k_has_healthcare_support -> Healthcare
      [] k = k_has_mall -> << kw_Mall >>

\* the names of the places nearby that the page shows are the text of the
\* claim, "Costco Supercenter, Starbucks, AMC Theater"
ShowsClaimText(doc) ==
    /\ Len(doc.PointOfInterestWidget) = 1
    /\ doc.PointOfInterestWidget[1][Len(doc.PointOfInterestWidget[1])]
          = <<"text", t_nearby_claim>>

\* C22: in every record returned for a page with the text of the places
\* nearby, each of the ten flags is 1 when a keyword of its list occurs in
\* that text and 0 when none does; for the text "Costco Supercenter,
\* Starbucks, AMC Theater" the flags has_supercenter, has_starbucks and
\* has_major_entertainment are 1 and the seven others 0.
C22_AmenityFlags ==
    (pc = "result" /\ house_dict.ok /\ Nearby_Items(house_doc) # NaN) =>
        /\ \A k \in FlagKeys :
              DictGet(house_dict.val, k)
                 = (IF \E n \in 1..Len(KeywordsOf(k)) :
                          Occurrences(Nearby_Items(house_doc)[2],
                                      KeywordsOf(k)[n]) # {}
                    THEN IntV(1) ELSE IntV(0))
        /\ ShowsClaimText(house_doc) =>
              \A k \in FlagKeys :
                  DictGet(house_dict.val, k)
                     = (IF k \in {k_has_supercenter, k_has_starbucks,
                                  k_has_major_entertainment}
                        THEN IntV(1) ELSE IntV(0))

\* a record was returned for a page that shows the text of the claim, with
\* has_starbucks 1 and has_mall 0
C22_Witness ==
    /\ pc = "result" /\ house_dict.ok
    /\ ShowsClaimText(house_doc)
    /\ DictGet(house_dict.val, k_has_starbucks) = IntV(1)
    /\ DictGet(house_dict.val, k_has_mall) = IntV(0)

\* C23: for every key-detail element of the page, the record maps the whole
\* text of its label to the whole text of its value, whitespace included.
C23_KeyDetailVerbatim ==
    (pc = "result" /\ house_dict.ok) =>
        \A n \in 1..Len(house_doc.keyDetail) :
            LET label == house_doc.keyDetail[n][1]
                value == house_doc.keyDetail[n][2]
            IN  /\ DictHas(house_dict.val, label)
                /\ DictGet(house_dict.val, label) = Str(value)

\* the named fields
NamedFieldSet == {NamedKeys[n] : n \in 1..Len(NamedKeys)}

\* the dynamic keys the key-detail rule can discover on the pages of a run
DynamicKeys ==
    UNION {DictKeys(key_details(d.keyDetail, << >>).val) : d \in RunDocs}

\* C24: the columns of the persisted table are named fields and dynamic
\* key-detail keys of the listings of the run and nothing else, in every
\* run, one without records included; with a record, every named field is
\* a column.
C24_ColumnSet ==
    file.state = "written" =>
        /\ DOMAIN file.header \subseteq NamedFieldSet \cup DynamicKeys
        /\ Len(file.lines) >= 1 => NamedFieldSet \subseteq DOMAIN file.header

\* the share of missing values of column c of the table given exceeds the
\* ratio given
HighMissing(c) ==
    (Len(dataframe.rows) - notna_count(dataframe, c)) * threshold_ratio[2]
        > threshold_ratio[1] * Len(dataframe.rows)

\* C25: the table returned has the columns of the table given whose share
\* of missing values does not exceed threshold_ratio, and no other, with
\* the values they had.
C25_DropHighMissing ==
    pc = "cleaned" =>
        /\ cleaned.columns = {c \in dataframe.columns : ~HighMissing(c)}
        /\ Len(cleaned.rows) = Len(dataframe.rows)
        /\ \A r \in 1..Len(cleaned.rows) :
              \A c \in cleaned.columns : cleaned.rows[r][c] = dataframe.rows[r][c]

\* the step is a fetch that raises: a page is asked for and none arrives
FetchRaises ==
    /\ effects' # effects
    /\ docs' = docs
    /\ url_list' = url_list

\* C26: a fetch that raises, of the seed page or of a result page, ends the
\* enumeration at once: the exception leaves the function, no list is
\* returned, and no page is fetched after it; a list that is returned has
\* the listings of every page of the list of page URLs.
C26_AllOrNothing ==
    [][/\ pc # "raised"
       /\ FetchRaises =>
             /\ pc' = "raised"
             /\ house_urls' = house_urls
             /\ Len(effects') = Len(effects) + 1
       /\ pc' = "returned" =>
             /\ Len(docs') = Len(url_list')
             /\ Len(effects') = 1 + Len(url_list')]_vars

\* the fetch of the second of three pages has raised: listing URLs of the
\* first page were collected, the third page was not fetched
C26_Witness ==
    /\ pc = "raised"
    /\ Len(url_list) = 3
    /\ Len(docs) = 1
    /\ Len(effects) = 3
    /\ Len(house_urls) >= 1

\* the step calls to_csv, whether the write succeeds or raises
CallsToCsv ==
    /\ Len(effects') = Len(effects) + 1
    /\ effects'[Len(effects')][1] = "to_csv"

C28_CheckpointFailureKeepsRecord ==
    [][/\ (pc = "checkpoint" /\ CallsToCsv
              /\ effects'[Len(effects')][2] = "OSError") =>
             /\ details_df' = details_df
             /\ Len(origin') >= 1 /\ origin'[Len(origin')] = i
             /\ pc' = "for" /\ i' = i + 1
       /\ \A p \in 1..(Len(effects') - 1) :
             effects'[p] = <<"to_csv", "OSError">> => effects'[p + 1][1] = "fetch"
                \/ effects'[p + 1][1] = "to_csv"
       /\ RowsKept(details_df, details_df')
       /\ pc' = "returned" => Len(file'.lines) = Len(origin')]_vars

\* a run has returned two records or more after a checkpoint write raised
\* and the next listing was fetched
C28_Witness ==
    /\ pc = "returned"
    /\ Len(details_df.rows) >= 2
    /\ \E p \in 1..(Len(effects) - 1) :
          /\ effects[p] = <<"to_csv", "OSError">>
          /\ effects[p + 1][1] = "fetch"
    /\ Len(file.lines) = Len(details_df.rows)

\* C29: with batch_size = 0 no sleep is performed and no to_csv is called
\* but the final one; every listing whose fetch and extraction did not
\* raise is appended; the run ends by the final write, and by an
\* exception only when that write raises.
C29_BatchSizeZero ==
    batch_size = 0 =>
        /\ EventsOf("sleep") = {}
        /\ \A p \in EventsOf("to_csv") :
              p = Len(effects) /\ pc \in {"returned", "raised"}
        /\ pc = "for" => Appended \cup failed = 0..(i - 1)
        /\ pc = "returned" =>
              /\ file = ToCsv(details_df)
              /\ Appended = Listings \ failed
              /\ Len(details_df.rows) = Cardinality(Appended)
        /\ pc = "raised" => effects[Len(effects)] = <<"to_csv", "OSError">>

\* a run with batch_size = 0 has returned two records or more, and a
\* listing failed
C29_Witness ==
    /\ batch_size = 0
    /\ pc = "returned"
    /\ Len(details_df.rows) >= 2
    /\ failed # {}

\* the Schools mapping of the returned record
SchoolsOf == DictGet(house_dict.val, k_Schools)[2]

\* the page differs from the fully rendered one in its school nodes at most
OnlySchoolsAltered ==
    \A w \in Widgets \ {"schoolName", "ratingNum"} : house_doc[w] = FullDoc[w]

\* C30: for n name nodes and m rating nodes the Schools mapping has at most
\* min(n, m) entries, all of them names among the first min(n, m); each of
\* those names maps to the rating at the position of its last occurrence
\* among them (its own position when the name is not repeated); a
\* difference of the two lengths raises nothing.
C30_SchoolsPairing ==
    pc = "result" =>
        LET names == house_doc.schoolName
            ratings == house_doc.ratingNum
            least == IF Len(names) <= Len(ratings) THEN Len(names)
                     ELSE Len(ratings)
            last(k) == CHOOSE m \in k..least :
                          /\ names[m] = names[k]
                          /\ \A q \in (m + 1)..least : names[q] # names[k]
        IN  /\ OnlySchoolsAltered => house_dict.ok
            /\ house_dict.ok =>
                  /\ Len(SchoolsOf) <= least
                  /\ \A j \in 1..Len(SchoolsOf) :
                        \E k \in 1..least : SchoolsOf[j][1] = names[k]
                  /\ \A k \in 1..least :
                        /\ DictHas(SchoolsOf, names[k])
                        /\ DictGet(SchoolsOf, names[k]) = Str(ratings[last(k)])

\* a record was returned for a page naming the same school twice with two
\* ratings: the mapping has the one entry, with the second rating
C30_Witness ==
    /\ pc = "result" /\ house_dict.ok
    /\ house_doc.schoolName = <<t_Elm, t_Elm>>
    /\ Len(house_doc.ratingNum) = 2
    /\ SchoolsOf = << <<t_Elm, Str(house_doc.ratingNum[2])>> >>

=============================================================================
